---- MODULE Spec2Model ----
(***************************************************************************)
(* A model of src/src/builderGenerator.ts: the synthesis of a builder      *)
(* class from a structural declaration (generateBuilderFunc and            *)
(* builderParameterTypeMapper), the run-time behaviour of the statements   *)
(* the emitted class holds, and the batch of file operations that          *)
(* generateBuilders awaits.                                                *)
(*                                                                         *)
(* Texts are sequences of tokens, so that a rendering can be taken apart   *)
(* again; Str flattens a text to the string the code compares.             *)
(***************************************************************************)
EXTENDS Naturals, Sequences, FiniteSets, TLC

VARIABLES
    pc,          \* which step of the modelled run comes next
    decl,        \* the declaration handed to generateBuilderFunc
    gen,         \* what generateBuilderFunc returned for decl
    console,     \* the lines written with console.warn
    mapperLog,   \* the calls of builderParameterTypeMapper: argument and result
    heap,        \* the objects of the run of the emitted code, by reference
    seeds,       \* the references of the objects the caller made to pass as seeds
    made,        \* per object, its content when it was made
    builders,    \* per builder instance, the reference its obj member holds
    seeded,      \* per builder instance, the content of its seed at construction
    lastSet,     \* per builder instance and key, the value of its latest own call
    ret,         \* what the latest call of get returned
    input,       \* generateBuilders' input file: its name and its declarations
    chains,      \* per emitted class, its save-then-copy chain
    indexSave,   \* the state of indexFile.save()
    promise,     \* the state of the promise generateBuilders returns
    disk,        \* the output directory: per path, what was written there last
    writes       \* the file operations that have written, with their paths

genVars == <<pc, decl, gen, console, mapperLog>>
runVars == <<heap, seeds, made, builders, seeded, lastSet, ret>>
fsVars  == <<input, chains, indexSave, promise, disk, writes>>
vars    == <<genVars, runVars, fsVars>>

-----------------------------------------------------------------------------
(* Bounds *)

\* The largest number of properties of a declaration.
MaxProps == 2

\* The largest number of objects and of builder instances of a run.
MaxObjects  == 2
MaxBuilders == 2

\* The largest number of declarations of an input file.
MaxDecls == 2

-----------------------------------------------------------------------------
(* Texts *)

RECURSIVE Str(_)
Str(toks) == IF toks = <<>> THEN "" ELSE Head(toks) \o Str(Tail(toks))

RECURSIVE Join(_, _)
Join(texts, sep) ==
    IF texts = <<>> THEN <<>>
    ELSE IF Len(texts) = 1 THEN texts[1]
    ELSE texts[1] \o <<sep>> \o Join(Tail(texts), sep)

RECURSIVE MapSeq(_, _)
MapSeq(F(_), s) == IF s = <<>> THEN <<>> ELSE <<F(Head(s))>> \o MapSeq(F, Tail(s))

-----------------------------------------------------------------------------
(* Types, as the type checker resolves them (ts-morph's Type)              *)

\* The module-qualified prefix getText() puts before a type of the input file.
ImportPrefix == "import(\"/in/schema\")"

Mk(kind, text) == [kind |-> kind, text |-> text, elem |-> <<>>, members |-> <<>>]

StringT    == Mk("string", <<"string">>)
NumberT    == Mk("number", <<"number">>)
StrLitT    == Mk("literal", <<"\"x\"">>)
TrueT      == Mk("true", <<"true">>)
FalseT     == Mk("false", <<"false">>)
UndefinedT == Mk("undefined", <<"undefined">>)
NullT      == Mk("null", <<"null">>)
AnyT       == Mk("any", <<"any">>)
FooT       == Mk("object", <<ImportPrefix, ".Foo">>)
DateT      == Mk("object", <<"Date">>)
RedT       == Mk("enumLiteral", <<ImportPrefix, ".Color.Red">>)
GreenT     == Mk("enumLiteral", <<ImportPrefix, ".Color.Green">>)

isUnion(t)     == t.kind \in {"union", "boolean", "enum"}
isArray(t)     == t.kind = "array"
isString(t)    == t.kind = "string"
isNumber(t)    == t.kind = "number"
isLiteral(t)   == t.kind \in {"literal", "true", "false", "enumLiteral"}
isBoolean(t)   == t.kind = "boolean"
isUndefined(t) == t.kind = "undefined"
isNull(t)      == t.kind = "null"
isAny(t)       == t.kind = "any"
isEnum(t)      == t.kind = "enum"

getText(t)             == t.text
getUnionTypes(t)       == t.members
getArrayElementType(t) == t.elem[1]

memberText(t) == getText(t)

\* A union of the given constituents; the text lists them.
UnionOf(ms) ==
    [kind |-> "union", text |-> Join(MapSeq(memberText, ms), " | "),
     elem |-> <<>>, members |-> ms]

\* boolean is the union of its two literals, and is flagged boolean as well.
BooleanOf(ms) ==
    [kind |-> "boolean", text |-> <<"boolean">>, elem |-> <<>>, members |-> ms]

EnumT ==
    [kind |-> "enum", text |-> <<ImportPrefix, ".Color">>, elem |-> <<>>,
     members |-> <<RedT, GreenT>>]

\* T[]; the text of a union element is parenthesised.
ArrayOf(t) ==
    [kind |-> "array",
     text |-> IF t.kind = "union" THEN <<"(">> \o getText(t) \o <<")", "[]">>
              ELSE getText(t) \o <<"[]">>,
     elem |-> <<t>>, members |-> <<>>]

BaseTypes ==
    {StringT, NumberT, StrLitT, TrueT, FalseT, UndefinedT, NullT, AnyT, FooT, DateT}

UnionMembers == {UndefinedT, StringT, FalseT, FooT}

BooleanTypes == {BooleanOf(<<FalseT, TrueT>>), BooleanOf(<<TrueT, FalseT>>)}

UnionTypes ==
    {UnionOf(<<p[1], p[2]>>) : p \in {q \in UnionMembers \X UnionMembers : q[1] # q[2]}}
        \cup {UnionOf(<<UndefinedT, FalseT, TrueT>>),
              UnionOf(<<UndefinedT, ArrayOf(FooT)>>)}

ElementTypes ==
    BaseTypes \cup {BooleanOf(<<FalseT, TrueT>>), EnumT, UnionOf(<<StringT, FooT>>),
                    ArrayOf(StringT), ArrayOf(FooT)}

ArrayTypes == {ArrayOf(t) : t \in ElementTypes}

Types == BaseTypes \cup BooleanTypes \cup {EnumT} \cup UnionTypes \cup ArrayTypes

-----------------------------------------------------------------------------
(* Declarations *)

\* A name is its sequence of characters.
TypenameProp == <<"_", "_", "t", "y", "p", "e", "n", "a", "m", "e">>
PropNames    == {<<"i", "d">>, <<"n", "a", "m", "e">>}
DeclNames    == {<<"U", "s", "e", "r">>}

\* A property: the tag is declared with the literal of the declaration's name.
Props ==
    [name : PropNames, type : Types] \cup {[name |-> TypenameProp, type |-> StrLitT]}

RECURSIVE SeqsUpTo(_, _)
SeqsUpTo(S, n) ==
    IF n = 0 THEN {<<>>}
    ELSE LET shorter == SeqsUpTo(S, n - 1)
         IN  shorter \cup {Append(s, x) : s \in shorter, x \in S}

\* The property lists of at most n properties, no name twice.
RECURSIVE PropListsUpTo(_)
PropListsUpTo(n) ==
    IF n = 0 THEN {<<>>}
    ELSE LET shorter == PropListsUpTo(n - 1)
             unused(ps) == {p \in Props : \A i \in DOMAIN ps : ps[i].name # p.name}
         IN  shorter \cup UNION {{Append(ps, p) : p \in unused(ps)} : ps \in shorter}

PropLists == PropListsUpTo(MaxProps)

\* rootIsUnion: the declaration's own type is a union, props its common properties;
\* an interface is never a union.
Declarations ==
    {d \in [name : DeclNames, form : {"alias", "interface"},
            rootIsUnion : BOOLEAN, props : PropLists] :
        d.form = "interface" => ~d.rootIsUnion}

-----------------------------------------------------------------------------
(* builderParameterTypeMapper and capitalizeFirstLetter *)

\* String.replace(/import\("[^"]*"\)/gi, 'SchemaTypes') on a text.
isImport(tok) == tok = ImportPrefix

replaceImports(text) ==
    [i \in DOMAIN text |-> IF isImport(text[i]) THEN "SchemaTypes" ELSE text[i]]

resultTypeOf(subType) ==
    IF isArray(subType) THEN getArrayElementType(subType) ELSE subType

\* A faulty variant: the enum predicate is left out of the list.
isPrimitiveWithoutEnum(resultType) ==
    \/ isString(resultType)
    \/ isNumber(resultType)
    \/ isLiteral(resultType)
    \/ isBoolean(resultType)
    \/ isUndefined(resultType)
    \/ isNull(resultType)
    \/ isAny(resultType)

isPrimitive(resultType) ==
    \/ isString(resultType)
    \/ isNumber(resultType)
    \/ isLiteral(resultType)
    \/ isBoolean(resultType)
    \/ isUndefined(resultType)
    \/ isNull(resultType)
    \/ isAny(resultType)
    \/ isEnum(resultType)

\* A faulty variant: the array marker is not put back.
builderParameterTypeMapperNoSuffix(subType) ==
    LET resultType == resultTypeOf(subType)
        text       == replaceImports(getText(resultType))
    IN  IF isPrimitive(resultType) THEN text ELSE <<"DeepPartial<">> \o text \o <<">">>

builderParameterTypeMapper(subType) ==
    LET resultType    == resultTypeOf(subType)
        text          == replaceImports(getText(resultType))
        resultTypeStr == IF isPrimitive(resultType) THEN text
                         ELSE <<"DeepPartial<">> \o text \o <<">">>
    IN  IF isArray(subType) THEN resultTypeStr \o <<"[]">> ELSE resultTypeStr

toUpperCase(c) ==
    CASE c = "i" -> "I"
      [] c = "n" -> "N"
      [] c = "u" -> "U"
      [] OTHER   -> c

capitalizeFirstLetter(string) ==
    IF string = <<>> THEN <<>> ELSE <<toUpperCase(Head(string))>> \o Tail(string)

-----------------------------------------------------------------------------
(* generateBuilderFunc *)

unionTypesOf(type) == IF isUnion(type) THEN getUnionTypes(type) ELSE <<type>>

notFalse(t) == Str(t) # "false"

\* A faulty variant: the literal true is not widened.
widenTrueNot(t) == t

widenTrue(t) == IF Str(t) = "true" THEN <<"boolean">> ELSE t

\* unionTypes.map(mapper).filter(t !== 'false').map(true -> boolean).join(' | ')
parametersTypeOf(type) ==
    Join(MapSeq(widenTrue,
                SelectSeq(MapSeq(builderParameterTypeMapper, unionTypesOf(type)),
                          notFalse)),
         " | ")

\* The statements of a method body.
Assign(prop, rhs) == [op |-> "assign", prop |-> prop, rhs |-> rhs]
ReturnThis        == [op |-> "returnThis", prop |-> <<>>, rhs |-> <<>>]
ReturnObj         == [op |-> "returnObj", prop |-> <<>>, rhs |-> <<>>]
TsIgnore          == [op |-> "comment", prop |-> <<>>, rhs |-> <<>>]

classNameOf(typeName) == typeName \o <<"Builder">>

setterMethod(prop, className) ==
    [name           |-> <<"with">> \o capitalizeFirstLetter(prop.name),
     returnType     |-> className,
     typeParameters |-> <<"P extends ">> \o parametersTypeOf(prop.type),
     parameters     |-> <<"val">>,
     statements     |-> <<Assign(prop.name, <<"val">>), ReturnThis>>]

includeTypenameMethod(typeName) ==
    [name           |-> <<"includeTypename">>,
     returnType     |-> <<>>,
     typeParameters |-> <<>>,
     parameters     |-> <<>>,
     statements     |-> <<TsIgnore, Assign(TypenameProp, <<"'">> \o typeName \o <<"'">>),
                          ReturnThis>>]

getMethod(typeName) ==
    [name           |-> <<"get">>,
     returnType     |-> <<"SchemaTypes.">> \o typeName,
     typeParameters |-> <<>>,
     parameters     |-> <<>>,
     statements     |-> <<ReturnObj>>]

\* A faulty variant: the loop does not pass over the tag.
RECURSIVE setterMethodsWithTag(_, _)
setterMethodsWithTag(props, className) ==
    IF props = <<>> THEN <<>>
    ELSE <<setterMethod(Head(props), className)>>
             \o setterMethodsWithTag(Tail(props), className)

\* The loop over props: the tag is passed over, every other property gets a setter.
RECURSIVE setterMethods(_, _)
setterMethods(props, className) ==
    IF props = <<>> THEN <<>>
    ELSE IF Head(props).name = TypenameProp THEN setterMethods(Tail(props), className)
    ELSE <<setterMethod(Head(props), className)>> \o setterMethods(Tail(props), className)

methodsOf(typeAlias) ==
    setterMethods(typeAlias.props, classNameOf(typeAlias.name))
        \o <<includeTypenameMethod(typeAlias.name), getMethod(typeAlias.name)>>

\* return new <className>(baseObj ?? {});
ReturnNew(className, arg, orElse) ==
    [op |-> "returnNew", class |-> className, arg |-> arg, orElse |-> orElse]

builderFuncOf(typeAlias) ==
    [name       |-> <<"a">> \o classNameOf(typeAlias.name),
     returnType |-> classNameOf(typeAlias.name),
     parameters |-> <<"baseObj">>,
     statements |-> <<ReturnNew(classNameOf(typeAlias.name), "baseObj", "{}")>>]

classObjOf(typeAlias) ==
    [name    |-> classNameOf(typeAlias.name),
     ctorObj |-> "{}",
     methods |-> methodsOf(typeAlias)]

\* What the call returns (an absent member is the empty sequence) and what it
\* writes to the console.
Skip == [classObj |-> <<>>, builderFunc |-> <<>>]

unionWarning(typeAlias) ==
    <<"Skipped type generation for union: ">> \o typeAlias.name

mapperCall(subType) == [subType |-> subType, out |-> builderParameterTypeMapper(subType)]

\* The mapper calls the loop over props makes, in order.
RECURSIVE mapperCalls(_)
mapperCalls(props) ==
    IF props = <<>> THEN <<>>
    ELSE IF Head(props).name = TypenameProp THEN mapperCalls(Tail(props))
    ELSE MapSeq(mapperCall, unionTypesOf(Head(props).type)) \o mapperCalls(Tail(props))

\* A faulty variant: the union test comes before the test for no properties.
generateBuilderFuncUnionFirst(typeAlias) ==
    IF typeAlias.rootIsUnion
    THEN [result |-> Skip, warned |-> <<unionWarning(typeAlias)>>, calls |-> <<>>]
    ELSE IF Len(typeAlias.props) <= 0
    THEN [result |-> Skip, warned |-> <<>>, calls |-> <<>>]
    ELSE [result |-> [classObj |-> <<classObjOf(typeAlias)>>,
                      builderFunc |-> <<builderFuncOf(typeAlias)>>],
          warned |-> <<>>,
          calls  |-> mapperCalls(typeAlias.props)]

generateBuilderFunc(typeAlias) ==
    IF Len(typeAlias.props) <= 0
    THEN [result |-> Skip, warned |-> <<>>, calls |-> <<>>]
    ELSE IF typeAlias.rootIsUnion
    THEN [result |-> Skip, warned |-> <<unionWarning(typeAlias)>>, calls |-> <<>>]
    ELSE [result |-> [classObj |-> <<classObjOf(typeAlias)>>,
                      builderFunc |-> <<builderFuncOf(typeAlias)>>],
          warned |-> <<>>,
          calls  |-> mapperCalls(typeAlias.props)]

-----------------------------------------------------------------------------
(* The synthesis of one declaration *)

NotRun == [classObj |-> <<>>, builderFunc |-> <<>>]

NoRet == [builder |-> 0, ref |-> 0, value |-> <<>>, calls |-> <<>>]

\* No emitted code runs.
InitNoRun ==
    /\ heap = <<>>
    /\ seeds = {}
    /\ made = <<>>
    /\ builders = <<>>
    /\ seeded = <<>>
    /\ lastSet = <<>>
    /\ ret = NoRet

NoInput == [fileName |-> "", aliases |-> <<>>, interfaces |-> <<>>]

\* generateBuilders is not called.
InitNoFiles ==
    /\ input = NoInput
    /\ chains = <<>>
    /\ indexSave = "none"
    /\ promise = "none"
    /\ disk = <<>>
    /\ writes = {}

InitGen ==
    /\ pc = "synthesize"
    /\ decl \in Declarations
    /\ gen = NotRun
    /\ console = <<>>
    /\ mapperLog = <<>>
    /\ InitNoRun
    /\ InitNoFiles

Synthesize ==
    /\ pc = "synthesize"
    /\ LET r == generateBuilderFunc(decl)
       IN  /\ gen' = r.result
           /\ console' = console \o r.warned
           /\ mapperLog' = mapperLog \o r.calls
    /\ pc' = "synthesized"
    /\ UNCHANGED decl

NextGen == Synthesize /\ UNCHANGED <<runVars, fsVars>>

SpecGen == InitGen /\ [][NextGen]_vars

-----------------------------------------------------------------------------
(* Properties of the synthesis *)

Synthesized == pc = "synthesized"
Emitted     == Synthesized /\ gen.classObj # <<>>
Skipped     == Synthesized /\ gen = Skip

methods == gen.classObj[1].methods

isTag(p) == p.name = TypenameProp
isField(p) == p.name # TypenameProp

\* The declaration's properties other than the tag, in declaration order.
Fields == SelectSeq(decl.props, isField)

\* The accepted type of the i-th method, a setter: the text after "P extends ".
Accepted(i) == Tail(methods[i].typeParameters)

IsSetterOf(m, p) ==
    /\ Str(m.name) = "with" \o Str(capitalizeFirstLetter(p.name))
    /\ m.parameters = <<"val">>
    /\ m.statements[1] = Assign(p.name, <<"val">>)

\* C1: a declaration that is not skipped and has N properties other than
\* __typename yields a class of exactly N + 2 methods: the N setters, one per
\* such property and in the order of the declaration, then includeTypename, then
\* get.
C1_MethodList ==
    Emitted =>
        /\ Len(methods) = Len(Fields) + 2
        /\ \A i \in 1..Len(Fields) : IsSetterOf(methods[i], Fields[i])
        /\ Str(methods[Len(Fields) + 1].name) = "includeTypename"
        /\ Str(methods[Len(Fields) + 2].name) = "get"

C1_Witness ==
    /\ Emitted
    /\ Len(decl.props) = 2
    /\ isTag(decl.props[1])
    /\ Len(methods) = 3

NamesDeclaration(line) ==
    /\ Len(line) > Len(decl.name)
    /\ SubSeq(line, Len(line) - Len(decl.name) + 1, Len(line)) = decl.name

OneWarning == Len(console) = 1 /\ NamesDeclaration(console[1])

\* C2 as stated: every declaration whose root type is a union, whatever the number
\* of its properties, is skipped with exactly one warning naming it.
C2_UnionAlwaysWarns ==
    (Synthesized /\ decl.rootIsUnion) => (gen = Skip /\ OneWarning)

\* C2 amended: a declaration whose root type is a union is always skipped; it
\* gets exactly one warning naming it when it has at least one property, and no
\* warning when it has none.
C2_UnionSkip ==
    (Synthesized /\ decl.rootIsUnion) =>
        /\ gen = Skip
        /\ Len(decl.props) > 0 => OneWarning
        /\ Len(decl.props) = 0 => console = <<>>

C2_Witness ==
    /\ Skipped
    /\ decl.rootIsUnion
    /\ Len(decl.props) = 2
    /\ Len(console) = 1

IsTrueFalse(t) ==
    /\ isUnion(t)
    /\ Len(getUnionTypes(t)) = 2
    /\ {getUnionTypes(t)[1], getUnionTypes(t)[2]} = {TrueT, FalseT}

\* C3: the setter of a field declared as the union of the literals true and
\* false, in either order, accepts exactly boolean.
C3_BooleanCollapses ==
    Emitted =>
        \A i \in 1..Len(Fields) :
            IsTrueFalse(Fields[i].type) => Str(Accepted(i)) = "boolean"

C3_Witness ==
    /\ Emitted
    /\ \E i \in 1..Len(Fields) :
           /\ Fields[i].type.members = <<TrueT, FalseT>>
           /\ Accepted(i) = <<"boolean">>

\* The accepted type a setter gets for a field declared T.
AcceptedFor(T) == parametersTypeOf(T)

ArraySuffixed(i) ==
    Str(Accepted(i)) = Str(AcceptedFor(getArrayElementType(Fields[i].type))) \o "[]"

\* C4 as stated: for every element type T, the accepted type of a field declared
\* T[] is the accepted type of a field declared T followed by "[]".
C4_ArrayOfAnyElement ==
    Emitted =>
        \A i \in 1..Len(Fields) : isArray(Fields[i].type) => ArraySuffixed(i)

\* A single type that is no array and neither of the literals true and false
\* (string, number, a string literal, undefined, null, any, an object type), or
\* boolean.
PlainElement(T) == T.kind \notin {"true", "false", "union", "enum", "array"}

\* C4 amended: the accepted type of a field declared T[] is the accepted type of
\* a field declared T followed by "[]" when T is boolean or a single type that is
\* no union, no array and neither of the literals true and false.
C4_ArrayOfPlainElement ==
    Emitted =>
        \A i \in 1..Len(Fields) :
            (isArray(Fields[i].type) /\ PlainElement(getArrayElementType(Fields[i].type)))
                => ArraySuffixed(i)

C4_Witness ==
    /\ Emitted
    /\ \E i \in 1..Len(Fields) :
           /\ Fields[i].type = ArrayOf(FooT)
           /\ Str(Accepted(i)) = "DeepPartial<SchemaTypes.Foo>[]"

\* The type the primitive predicates are asked about: the element of an array,
\* the type itself otherwise.
Descended(t) == IF t.kind = "array" THEN t.elem[1] ELSE t

SatisfiesAPrimitivePredicate(t) ==
    t.kind \in {"string", "number", "literal", "true", "false", "enumLiteral",
                "boolean", "undefined", "null", "any", "enum"}

\* The rendering is DeepPartial<...>, followed by [] for an array.
Wrapped(call) ==
    LET body == IF call.subType.kind = "array"
                THEN SubSeq(call.out, 1, Len(call.out) - 1) ELSE call.out
    IN  /\ Len(body) >= 3
        /\ Head(body) = "DeepPartial<"
        /\ body[Len(body)] = ">"

\* C5: the mapper wraps a constituent's rendering in DeepPartial<...> exactly when
\* the type, after one descent into an array's element type, satisfies none of the
\* primitive predicates; string renders bare and a shape renders wrapped (Foo of
\* the input module under its SchemaTypes qualifier, a global shape by its name).
C5_WrapIffNotPrimitive ==
    \A k \in DOMAIN mapperLog :
        /\ Wrapped(mapperLog[k]) <=>
               ~SatisfiesAPrimitivePredicate(Descended(mapperLog[k].subType))
        /\ mapperLog[k].subType = StringT => Str(mapperLog[k].out) = "string"
        /\ mapperLog[k].subType = FooT =>
               Str(mapperLog[k].out) = "DeepPartial<SchemaTypes.Foo>"
        /\ mapperLog[k].subType = DateT => Str(mapperLog[k].out) = "DeepPartial<Date>"

C5_Witness ==
    /\ Emitted
    /\ \E j, k \in DOMAIN mapperLog :
           /\ mapperLog[j].subType = StringT
           /\ mapperLog[k].subType = FooT
           /\ Wrapped(mapperLog[k])

\* C10: the accepted type of every setter is a non-empty union.
C10_AcceptedTypeNonEmpty ==
    Emitted => \A i \in 1..Len(Fields) : Str(Accepted(i)) # ""


-----------------------------------------------------------------------------
(* The run of the emitted class and factory *)

Vals   == {"v1", "v2"}
Absent == "<absent>"
NoCall == "<no call>"

TagKey == Str(TypenameProp)

\* The keys an object of the run may hold.
Keys == {Str(decl.props[i].name) : i \in DOMAIN decl.props} \cup {TagKey}

\* {}
EmptyObject == [k \in Keys |-> Absent]

\* The partial objects a caller may hand to the factory.
SeedContents == [Keys -> {"v1", Absent}]

\* The declarations whose emitted builder is run: one with the tag and two
\* fields, one with a single field.
WideDeclarations ==
    {[name |-> <<"U", "s", "e", "r">>, form |-> "alias", rootIsUnion |-> FALSE,
      props |-> <<[name |-> TypenameProp, type |-> StrLitT],
                  [name |-> <<"i", "d">>, type |-> StringT],
                  [name |-> <<"n", "a", "m", "e">>, type |-> FooT]>>]}

NarrowDeclarations ==
    {[name |-> <<"U", "s", "e", "r">>, form |-> "interface", rootIsUnion |-> FALSE,
      props |-> <<[name |-> <<"i", "d">>, type |-> StringT]>>]}

\* The value of the right-hand side of an assignment: the parameter val, or a
\* quoted literal.
evalRhs(rhs, val) ==
    IF rhs = <<"val">> THEN val ELSE Str(SubSeq(rhs, 2, Len(rhs) - 1))

\* A faulty variant: the assignment replaces the whole object.
assignObjAlone(h, this, prop, value) ==
    [h EXCEPT ![builders[this]] = [k \in Keys |-> IF k = Str(prop) THEN value ELSE Absent]]

\* this.obj.<prop> = <rhs>
assignObj(h, this, prop, value) == [h EXCEPT ![builders[this]][Str(prop)] = value]

\* The heap after the statements of a method body ran on builder this; a return
\* ends the body.
RECURSIVE execStatements(_, _, _, _)
execStatements(stmts, h, this, val) ==
    IF stmts = <<>> THEN h
    ELSE IF Head(stmts).op = "assign"
    THEN execStatements(Tail(stmts),
                        assignObj(h, this, Head(stmts).prop, evalRhs(Head(stmts).rhs, val)),
                        this, val)
    ELSE IF Head(stmts).op \in {"returnThis", "returnObj"} THEN h
    ELSE execStatements(Tail(stmts), h, this, val)

\* Whether the body returns this.obj.
returnsObj(stmts) == \E i \in DOMAIN stmts : stmts[i].op = "returnObj"

\* The method a call by name reaches: of two members of one name the later stands.
methodNamed(name) ==
    LET classMethods == gen.classObj[1].methods
        idx == {i \in DOMAIN classMethods : Str(classMethods[i].name) = name}
    IN  classMethods[CHOOSE i \in idx : \A j \in idx : j <= i]

\* The names of the methods that take a value.
setterNames ==
    IF gen.classObj = <<>> THEN {}
    ELSE {Str(gen.classObj[1].methods[i].name) :
            i \in {j \in DOMAIN gen.classObj[1].methods :
                      gen.classObj[1].methods[j].parameters # <<>>}}

\* The field whose setter has this name.
fieldOfSetter(name) ==
    CHOOSE f \in {decl.props[i] : i \in DOMAIN decl.props} :
        /\ f.name # TypenameProp
        /\ "with" \o Str(capitalizeFirstLetter(f.name)) = name

\* The caller writes an object literal to pass as a seed.
NewSeed(content) ==
    /\ pc = "synthesized"
    /\ gen.classObj # <<>>
    /\ Len(heap) < MaxObjects
    /\ heap' = Append(heap, content)
    /\ made' = Append(made, content)
    /\ seeds' = seeds \cup {Len(heap) + 1}
    /\ UNCHANGED <<builders, seeded, lastSet, ret, genVars, fsVars>>

\* a<className>(baseObj?): return new <className>(baseObj ?? {}); baseObj = 0
\* stands for the omitted argument. The constructor keeps the reference it is
\* given in its obj member.
Factory(baseObj, limit) ==
    /\ pc = "synthesized"
    /\ gen.builderFunc # <<>>
    /\ Len(builders) < limit
    /\ LET st    == gen.builderFunc[1].statements[1]
           fresh == st.arg = "baseObj" /\ baseObj = 0 /\ st.orElse = "{}"
       IN  /\ fresh => Len(heap) < MaxObjects
           /\ heap' = IF fresh THEN Append(heap, EmptyObject) ELSE heap
           /\ made' = IF fresh THEN Append(made, EmptyObject) ELSE made
           /\ builders' = Append(builders, IF fresh THEN Len(heap) + 1 ELSE baseObj)
           /\ seeded' = Append(seeded, IF fresh THEN EmptyObject ELSE heap[baseObj])
           /\ lastSet' = Append(lastSet, [k \in Keys |-> NoCall])
    /\ UNCHANGED <<seeds, ret, genVars, fsVars>>

\* builder.with<Field>(val)
CallSetter(b, name, val) ==
    /\ b \in DOMAIN builders
    /\ name \in setterNames
    /\ heap' = execStatements(methodNamed(name).statements, heap, b, val)
    /\ lastSet' = [lastSet EXCEPT ![b][Str(fieldOfSetter(name).name)] = val]
    /\ UNCHANGED <<seeds, made, builders, seeded, ret, genVars, fsVars>>

\* builder.includeTypename()
CallIncludeTypename(b) ==
    /\ b \in DOMAIN builders
    /\ heap' = execStatements(methodNamed("includeTypename").statements, heap, b, Absent)
    /\ lastSet' = [lastSet EXCEPT ![b][TagKey] = Str(decl.name)]
    /\ UNCHANGED <<seeds, made, builders, seeded, ret, genVars, fsVars>>

\* builder.get()
CallGet(b) ==
    /\ b \in DOMAIN builders
    /\ returnsObj(methodNamed("get").statements)
    /\ heap' = execStatements(methodNamed("get").statements, heap, b, Absent)
    /\ ret' = [builder |-> b, ref |-> builders[b], value |-> heap'[builders[b]],
               calls |-> lastSet[b]]
    /\ UNCHANGED <<seeds, made, builders, seeded, lastSet, genVars, fsVars>>

InitRun(declarations) ==
    /\ pc = "synthesize"
    /\ decl \in declarations
    /\ gen = NotRun
    /\ console = <<>>
    /\ mapperLog = <<>>
    /\ InitNoRun
    /\ InitNoFiles

\* The calls a caller may make, with at most limit builder instances.
RunNext(limit) ==
    \/ Synthesize /\ UNCHANGED <<runVars, fsVars>>
    \/ \E content \in SeedContents : NewSeed(content)
    \/ \E baseObj \in {0} \cup seeds : Factory(baseObj, limit)
    \/ \E b \in DOMAIN builders, name \in setterNames, val \in Vals :
           CallSetter(b, name, val)
    \/ \E b \in DOMAIN builders : CallIncludeTypename(b)
    \/ \E b \in DOMAIN builders : CallGet(b)

NextRun == RunNext(MaxBuilders)

\* Any number of builder instances, which may be made from one seed.
InitMany == InitRun(NarrowDeclarations)

SpecRun == InitMany /\ [][NextRun]_vars

NextOne == RunNext(1)

\* One builder instance and the calls on it.
InitOne == InitRun(WideDeclarations)

SpecOne == InitOne /\ [][NextOne]_vars

-----------------------------------------------------------------------------
(* Properties of the run *)

FieldKeys == Keys \ {TagKey}

\* What a builder's own history says key k holds: the value of the latest own
\* call that set it, or else what its seed held at construction.
OwnValue(calls, seed, k) == IF calls[k] # NoCall THEN calls[k] ELSE seed[k]

\* C6: the object get returns holds, for every field, the value of the latest
\* call of that field's setter on the builder, or the seed's value (none without a
\* seed) when that setter was never called.
C6_GetReturnsLatestValues ==
    ret # NoRet =>
        \A k \in FieldKeys :
            ret.value[k] = OwnValue(ret.calls, seeded[ret.builder], k)

\* id seeded and then set twice, name seeded and never set.
C6_Witness ==
    /\ ret # NoRet
    /\ seeded[ret.builder]["id"] = "v1"
    /\ seeded[ret.builder]["name"] = "v1"
    /\ ret.calls["id"] = "v2"
    /\ ret.calls["name"] = NoCall
    /\ ret.calls[TagKey] # NoCall
    /\ ret.value["id"] = "v2"
    /\ ret.value["name"] = "v1"

\* C9: what get() on a builder returns is decided by that builder's own calls and
\* its seed as it was at construction, whatever is called on other builders, and
\* no seed object the caller made is ever changed.
C9_ExclusiveAccumulator ==
    /\ \A b \in DOMAIN builders : \A k \in Keys :
           heap[builders[b]][k] = OwnValue(lastSet[b], seeded[b], k)
    /\ \A o \in seeds : heap[o] = made[o]


-----------------------------------------------------------------------------
(* generateBuilders: the batch of file operations *)

OutputDir == "out"
FileNames == {"schema.ts", "index.ts"}
NoFile    == "<no file>"

\* path.join(dir, name), and the template `${dir}/${name}`
pathJoin(dir, name) == dir \o "/" \o name

UserDecl ==
    [name |-> <<"U", "s", "e", "r">>, form |-> "alias", rootIsUnion |-> FALSE,
     props |-> <<[name |-> <<"i", "d">>, type |-> StringT]>>]

EmptyDecl ==
    [name |-> <<"E", "m", "p", "t", "y">>, form |-> "alias", rootIsUnion |-> FALSE,
     props |-> <<>>]

EitherDecl ==
    [name |-> <<"E", "i", "t", "h", "e", "r">>, form |-> "alias", rootIsUnion |-> TRUE,
     props |-> <<[name |-> <<"i", "d">>, type |-> StringT]>>]

PostDecl ==
    [name |-> <<"P", "o", "s", "t">>, form |-> "interface", rootIsUnion |-> FALSE,
     props |-> <<[name |-> <<"n", "a", "m", "e">>, type |-> FooT]>>]

InputAliases    == {UserDecl, EmptyDecl, EitherDecl}
InputInterfaces == {PostDecl}

Distinct(ds) == \A i, j \in DOMAIN ds : i # j => ds[i] # ds[j]

\* The input files: a name, the type aliases and the interfaces in file order.
Inputs ==
    {in \in [fileName : FileNames,
             aliases : {a \in SeqsUpTo(InputAliases, MaxDecls) : Distinct(a)},
             interfaces : {i \in SeqsUpTo(InputInterfaces, MaxDecls) : Distinct(i)}] :
        Len(in.aliases) + Len(in.interfaces) <= MaxDecls}

\* The two loops: each declaration that yields a class and a factory is kept.
RECURSIVE classesAndFactoriesOf(_)
classesAndFactoriesOf(decls) ==
    IF decls = <<>> THEN <<>>
    ELSE LET r == generateBuilderFunc(Head(decls)).result
         IN  (IF r.classObj # <<>> /\ r.builderFunc # <<>> THEN <<r>> ELSE <<>>)
                 \o classesAndFactoriesOf(Tail(decls))

RECURSIVE warningsOf(_)
warningsOf(decls) ==
    IF decls = <<>> THEN <<>>
    ELSE generateBuilderFunc(Head(decls)).warned \o warningsOf(Tail(decls))

RECURSIVE callsOf(_)
callsOf(decls) ==
    IF decls = <<>> THEN <<>>
    ELSE generateBuilderFunc(Head(decls)).calls \o callsOf(Tail(decls))

\* The chain of one emitted class: outFile.save(), then copyFile of the input.
chainOf(entry, fileName) ==
    [class  |-> Str(entry.classObj[1].name),
     path   |-> pathJoin(OutputDir, Str(entry.classObj[1].name) \o ".ts"),
     copyTo |-> pathJoin(OutputDir, fileName),
     state  |-> "saving"]

indexPath == pathJoin(OutputDir, "index.ts")

\* A faulty variant: the save of the index is not among the awaited promises.
allFulfilledButIndex == \A i \in DOMAIN chains : chains[i].state = "fulfilled"

\* Promise.all([...promises, indexFile.save()]) is fulfilled.
allFulfilled ==
    /\ \A i \in DOMAIN chains : chains[i].state = "fulfilled"
    /\ indexSave = "fulfilled"

\* One of the promises handed to Promise.all is rejected.
someRejected ==
    \/ \E i \in DOMAIN chains : chains[i].state = "rejected"
    \/ indexSave = "rejected"

NoDeclaration == [name |-> <<>>, form |-> "alias", rootIsUnion |-> FALSE, props |-> <<>>]

InitFiles ==
    /\ pc = "start"
    /\ decl = NoDeclaration
    /\ gen = NotRun
    /\ console = <<>>
    /\ mapperLog = <<>>
    /\ InitNoRun
    /\ input \in Inputs
    /\ chains = <<>>
    /\ indexSave = "none"
    /\ promise = "none"
    /\ disk = <<>>
    /\ writes = {}

\* The synchronous part of generateBuilders: the two loops, one chain per kept
\* class with its save under way, the save of the index under way, and the
\* promise of Promise.all returned.
GenerateBuilders ==
    /\ pc = "start"
    /\ LET decls == input.aliases \o input.interfaces
           classesAndFactories == classesAndFactoriesOf(decls)
           promises == [i \in DOMAIN classesAndFactories |->
                           chainOf(classesAndFactories[i], input.fileName)]
           targets == {promises[i].path : i \in DOMAIN promises}
                          \cup {promises[i].copyTo : i \in DOMAIN promises}
                          \cup {indexPath}
       IN  /\ console' = console \o warningsOf(decls)
           /\ mapperLog' = mapperLog \o callsOf(decls)
           /\ chains' = promises
           /\ disk' = [p \in targets |-> NoFile]
    /\ indexSave' = "saving"
    /\ promise' = "pending"
    /\ pc' = "awaiting"
    /\ UNCHANGED <<decl, gen, input, writes, runVars>>

written(op, i, path, content) == [op |-> op, chain |-> i, path |-> path, content |-> content]

\* outFile.save() of chain i writes the unit; the copy of the input starts.
SaveCompletes(i) ==
    /\ i \in DOMAIN chains
    /\ chains[i].state = "saving"
    /\ chains' = [chains EXCEPT ![i].state = "copying"]
    /\ disk' = [disk EXCEPT ![chains[i].path] = chains[i].class]
    /\ writes' = writes \cup {written("save", i, chains[i].path, chains[i].class)}
    /\ UNCHANGED <<indexSave, promise, input, genVars, runVars>>

\* outFile.save() of chain i fails: the chain is rejected and its copy never runs.
SaveFails(i) ==
    /\ i \in DOMAIN chains
    /\ chains[i].state = "saving"
    /\ chains' = [chains EXCEPT ![i].state = "rejected"]
    /\ UNCHANGED <<indexSave, promise, disk, writes, input, genVars, runVars>>

\* copyFile(inputFilePath, `${outputFilePath}/${fileName}`) of chain i
CopyCompletes(i) ==
    /\ i \in DOMAIN chains
    /\ chains[i].state = "copying"
    /\ chains' = [chains EXCEPT ![i].state = "fulfilled"]
    /\ disk' = [disk EXCEPT ![chains[i].copyTo] = "input"]
    /\ writes' = writes \cup {written("copy", i, chains[i].copyTo, "input")}
    /\ UNCHANGED <<indexSave, promise, input, genVars, runVars>>

CopyFails(i) ==
    /\ i \in DOMAIN chains
    /\ chains[i].state = "copying"
    /\ chains' = [chains EXCEPT ![i].state = "rejected"]
    /\ UNCHANGED <<indexSave, promise, disk, writes, input, genVars, runVars>>

\* indexFile.save()
IndexSaveCompletes ==
    /\ indexSave = "saving"
    /\ indexSave' = "fulfilled"
    /\ disk' = [disk EXCEPT ![indexPath] = "index"]
    /\ writes' = writes \cup {written("index", 0, indexPath, "index")}
    /\ UNCHANGED <<chains, promise, input, genVars, runVars>>

IndexSaveFails ==
    /\ indexSave = "saving"
    /\ indexSave' = "rejected"
    /\ UNCHANGED <<chains, promise, disk, writes, input, genVars, runVars>>

\* The promise generateBuilders returned is fulfilled.
PromiseResolves ==
    /\ promise = "pending"
    /\ allFulfilled
    /\ promise' = "resolved"
    /\ UNCHANGED <<chains, indexSave, disk, writes, input, genVars, runVars>>

\* The promise generateBuilders returned is rejected, at the first rejection;
\* the other operations go on.
PromiseRejects ==
    /\ promise = "pending"
    /\ someRejected
    /\ promise' = "rejected"
    /\ UNCHANGED <<chains, indexSave, disk, writes, input, genVars, runVars>>

NextFiles ==
    \/ GenerateBuilders
    \/ \E i \in DOMAIN chains : SaveCompletes(i)
    \/ \E i \in DOMAIN chains : SaveFails(i)
    \/ \E i \in DOMAIN chains : CopyCompletes(i)
    \/ \E i \in DOMAIN chains : CopyFails(i)
    \/ IndexSaveCompletes
    \/ IndexSaveFails
    \/ PromiseResolves
    \/ PromiseRejects

\* The reactions of a settled promise always run.
SpecFiles ==
    /\ InitFiles
    /\ [][NextFiles]_vars
    /\ WF_vars(PromiseResolves)
    /\ WF_vars(PromiseRejects)

-----------------------------------------------------------------------------
(* Properties of the batch *)

HasWritten(op, i) == \E w \in writes : w.op = op /\ w.chain = i

\* Every unit is written, every copy made and the index written.
AllWritten ==
    /\ pc = "awaiting"
    /\ \A i \in DOMAIN chains : HasWritten("save", i) /\ HasWritten("copy", i)
    /\ HasWritten("index", 0)

\* The save of a unit, a copy or the save of the index has failed.
SomeOperationFailed ==
    \/ \E i \in DOMAIN chains : chains[i].state = "rejected"
    \/ indexSave = "rejected"

\* C7: the promise is fulfilled only once every unit is written, every copy made
\* and the index written; when one of these operations fails the promise is never
\* fulfilled and is rejected.
C7_AllOrNothing ==
    /\ [](promise = "resolved" => AllWritten)
    /\ [](SomeOperationFailed => promise # "resolved")
    /\ (SomeOperationFailed ~> promise = "rejected")

C7_Witness ==
    /\ promise = "resolved"
    /\ Len(chains) = 2
    /\ AllWritten

\* C8: no two of the concurrent file operations write the same path, so at the
\* end every path holds what the one operation that targets it wrote.
C8_DistinctTargets ==
    /\ \A v, w \in writes : v # w => v.path # w.path
    /\ AllWritten => \A w \in writes : disk[w.path] = w.content

====
